---- MODULE Spec2Model ----
(***************************************************************************)
(* State-machine model of the API synchronisation tasks of element43       *)
(* (webapp/element43/apps/api/tasks.py): the periodic sweeps that read the *)
(* APITimer table and dispatch one task per due character, and the wallet  *)
(* journal / wallet transactions walkers that page backwards through the   *)
(* remote feed and store what they have not seen yet.                      *)
(*                                                                         *)
(* One action is one database statement or one remote call of a task,      *)
(* together with the local computation that follows it up to the next one, *)
(* so that two tasks of the worker pool interleave exactly where the       *)
(* program can be interleaved.                                             *)
(***************************************************************************)
EXTENDS Integers, Sequences, FiniteSets, TLC

VARIABLES
    now,          \* the clock, in hours
    apikeyValid,  \* APIKey.is_valid of the key of each character
    timer,        \* APITimer.nextupdate of each (character, apisheet)
    rows,         \* number of JournalEntry / MarketTransaction rows per (character, apisheet, ref id)
    research,     \* number of Research rows per (character, agent)
    charskill,    \* number of CharSkill rows per (character, skill)
    orders,       \* ids of the rows of market_data Orders
    marketorder,  \* character of the MarketOrder row of each order id, 0 if there is none
    feed,         \* what the remote service holds for a character (fixed during a behaviour)
    task,         \* the dispatched Celery tasks, in dispatch order
    ntasks,       \* how many tasks have been dispatched
    scheduled,    \* what the last sweep logged: [apisheet, count]
    reftable,     \* name of the row of each id in StaStation / RefType / Skill, 0 if there is none
    refrun,       \* the runs of the reference-data tasks
    history,      \* request.session[MANUFACTURING_BLUEPRINT_HISTORY_SESSION] of one session
    called,       \* the last call of update_blueprint_history
    bill          \* the bills of materials of the last call of get_materials

vars ==
    <<now, apikeyValid, timer, rows, research, charskill, orders, marketorder,
      feed, task, ntasks, scheduled, reftable, refrun, history, called,
      bill>>

\* the tables the wallet walkers never touch
sheetTables == <<research, charskill, orders, marketorder>>

\* what only the reference-data tasks touch
refVars == <<reftable, refrun>>

\* what only the manufacturing views touch
sessionVars == <<history, called, bill>>

(***************************************************************************)
(* Bounds of the model.                                                    *)
(***************************************************************************)
NumChars == 2    \* characters in the Character table
MaxRef == 4      \* distinct records the remote feed of a character holds
RowCount == 2    \* page size requested from the remote service (2560 in the code)
MaxTasks == 2    \* tasks dispatched during one behaviour
MaxTime == 2     \* the clock stops here
CacheTTL == 1    \* hours the remote service declares a response fresh
MaxCalls == 4    \* remote calls one task makes
MaxAgents == 2   \* research agents
MaxSkills == 2   \* skills of the skill tree
MaxOrders == 2   \* market orders of a character
MaxItems == 2    \* items of a reference list of the remote service
MaxRuns == 2     \* runs of reference-data tasks during one behaviour
MaxBlueprints == 4   \* blueprint types a session can look at
\* apps.manufacturing.settings sets the length the history is cut to; the
\* model takes a small one
MANUFACTURING_MAX_BLUEPRINT_HISTORY == 3
MaxMaterials == 2    \* material types
MaxQuantity == 2     \* quantity of one entry of a bill of materials
MaxBill == 2         \* entries of one bill of materials

\* expires = now + timedelta(hours=1); the clock counts hours
Hour == 1

Chars == 1..NumChars
Refs == 1..MaxRef
Tasks == 1..MaxTasks
WalkStreams == {"WalletJournal", "WalletTransactions"}
SheetStreams == {"Research", "MarketOrders", "CharacterSheet"}
Streams == WalkStreams \cup SheetStreams
Errors == {"AuthenticationError", "TransientError"}
Agents == 1..MaxAgents
SkillIds == 1..MaxSkills
OrderIds == 1..MaxOrders
Items == 1..MaxItems
Runs == 1..MaxRuns
Blueprints == 1..MaxBlueprints
Materials == 1..MaxMaterials
RefKinds == {"ConquerableStations", "RefTypes", "SkillTree"}

(***************************************************************************)
(* The remote service.  A feed holds the records n, n-1, .. 1, newest      *)
(* first; the id of a record also orders it by date.  Record `dup`, if not *)
(* 0, is listed twice in a row; record `bad`, if not 0, names a type that  *)
(* the static data does not know, so that inserting it violates a foreign  *)
(* key.  The code does not tell whether a request with fromID lists the    *)
(* record fromID itself again: `incl` says whether this service does.  A   *)
(* feed has at most one of the three peculiarities.                        *)
(***************************************************************************)
Feeds ==
    {f \in [n : 0..MaxRef, dup : 0..MaxRef, bad : 0..MaxRef, incl : BOOLEAN] :
        /\ f.dup <= f.n /\ f.bad <= f.n
        /\ (f.dup = 0 \/ f.bad = 0)
        /\ (f.incl => f.dup = 0 /\ f.bad = 0)}

RECURSIVE FeedFrom(_, _)
FeedFrom(f, r) ==
    IF r = 0 THEN <<>>
    ELSE (IF r = f.dup THEN <<r, r>> ELSE <<r>>) \o FeedFrom(f, r - 1)

\* the whole feed, newest first
FeedSeq(f) == FeedFrom(f, f.n)

Take(s, k) == IF Len(s) <= k THEN s ELSE SubSeq(s, 1, k)

\* me.WalletJournal(rowCount=.., fromID=..): the rowCount newest records, or,
\* given fromID, the rowCount newest records that are older than fromID
\* (or not newer, for a service that lists fromID again).
\* fromID = 0 stands for a request without fromID.
Page(f, fromID) ==
    Take(IF fromID = 0 THEN FeedSeq(f)
         ELSE SelectSeq(FeedSeq(f),
                        LAMBDA r : r < fromID \/ (f.incl /\ r = fromID)),
         RowCount)

\* _meta.cachedUntil of a response received now
CachedUntil == now + CacheTTL

(***************************************************************************)
(* The tables.                                                             *)
(***************************************************************************)
Key(c, s, r) == <<c, s, r>>
Keys == Chars \X WalkStreams \X Refs

\* Model.objects.filter(character=character).values_list(<ref id>, flat=True)
StoredRefs(c, s) == {r \in Refs : rows[Key(c, s, r)] > 0}

SetMin(S) == CHOOSE x \in S : \A y \in S : x <= y

\* (variant: the newest row, order_by('-date'))
Newest(c, s) == CHOOSE x \in StoredRefs(c, s) : \A y \in StoredRefs(c, s) : x >= y

\* Model.objects.filter(character=character).order_by('date')[:1][0].<ref id>
Oldest(c, s) == SetMin(StoredRefs(c, s))

\* entry.save() raises IntegrityError for a record whose type is unknown
SaveFails(r) == r = feed.bad

(***************************************************************************)
(* Tasks.                                                                  *)
(***************************************************************************)
IdleTask ==
    [pc |-> "idle", character_id |-> 0, apisheet |-> "", expires |-> 0,
     sheet |-> <<>>, cachedUntil |-> 0, idx |-> 0, existing_entries |-> {},
     walking |-> FALSE, found |-> 0,
     \* history of the run, kept for the properties below
     key_valid |-> FALSE, n_new |-> -1, calls |-> 0, fetched |-> <<>>,
     raised |-> <<>>, handled |-> <<>>, integrity |-> 0, writes |-> <<>>,
     others_stuck |-> FALSE,  \* a walker of another character was failed or under way at dispatch
     cursors |-> <<>>,        \* fromID of each answered request, 0 for none
     overlap |-> 0,           \* the first request whose page held a record this run had inserted
     rerun_of |-> 0,          \* the task of the same pair that had ended when this one started
     before |-> <<>>,         \* what was stored for the pair then
     response |-> <<>>,       \* the sheet received
     index_errors |-> 0,      \* times the query for the oldest row found none
     after_abort |-> FALSE]   \* a run of the pair had ended on an error of the remote service at dispatch

Terminal == {"Skipped", "Aborted", "Failed", "Done", "Discarded"}

\* the end of run(): the local variables of the task are gone
Ended(tk, pc) ==
    [tk EXCEPT !.pc = pc, !.sheet = <<>>, !.cachedUntil = 0, !.idx = 0,
               !.existing_entries = {}, !.walking = FALSE, !.found = 0]

\* a run of a reference-data task that has not begun
IdleRun ==
    [pc |-> "idle", kind |-> "", list |-> <<>>, idx |-> 0,
     \* history of the run
     saved |-> {}, integrity |-> 0]

\* no call of update_blueprint_history yet; deleted is the id of the entry
\* deleted last
IdleCall == [blueprint |-> 0, before |-> <<>>, deleted |-> 0]

\* no call of get_materials yet
NoBill ==
    [pc |-> "idle", materials1 |-> <<>>, materials2 |-> <<>>,
     materials |-> <<>>]

(***************************************************************************)
(* Initial state: no task dispatched yet.  Every key is valid (a key is    *)
(* invalidated by the handler of authentication errors).  The timers of    *)
(* the first d characters are due now, the others in an hour.  Each        *)
(* character has stored the k oldest records of the feed (the ones earlier *)
(* runs walked), except the one that cannot be saved.                      *)
(***************************************************************************)
Init ==
    /\ now = 0
    /\ apikeyValid = [c \in Chars |-> TRUE]
    /\ \E d \in 1..NumChars :
          timer = [p \in Chars \X Streams |-> IF p[1] <= d THEN 0 ELSE 1]
    /\ feed \in Feeds
    /\ \E k \in 0..MaxRef :
          /\ k <= feed.n
          /\ rows = [key \in Keys |->
                        IF key[3] <= k /\ ~SaveFails(key[3]) THEN 1 ELSE 0]
    /\ research = [k \in Chars \X Agents |-> 0]
    /\ charskill = [k \in Chars \X SkillIds |-> 0]
    /\ orders = {}
    /\ marketorder = [o \in OrderIds |-> 0]
    /\ task = [t \in Tasks |-> IdleTask]
    /\ ntasks = 0
    /\ scheduled = [apisheet |-> "", count |-> 0]
    /\ reftable = [k \in RefKinds |-> [i \in Items |-> 0]]
    /\ refrun = [r \in Runs |-> IdleRun]
    /\ history = <<>>
    /\ called = IdleCall
    /\ bill = NoBill

(***************************************************************************)
(* The clock.                                                              *)
(***************************************************************************)
Tick ==
    /\ now < MaxTime
    /\ now' = now + 1
    /\ UNCHANGED <<apikeyValid, timer, rows, feed, task, ntasks, scheduled, sheetTables,
                   refVars, sessionVars>>

(***************************************************************************)
(* ProcessWalletJournal.run / ProcessWalletTransactions.run: the sweep.    *)
(***************************************************************************)
\* (variant: nextupdate__lt instead of nextupdate__lte)
update_timers_lt(s) == {c \in Chars : timer[<<c, s>>] < now}

\* (variant: a sweep that leaves everything alone while some walker has
\* failed or is under way)
update_timers_unblocked(s) ==
    IF \E t \in Tasks :
           task[t].pc \notin {"idle", "queued", "Skipped", "Aborted", "Done",
                              "Discarded"}
    THEN {}
    ELSE {c \in Chars : timer[<<c, s>>] <= now}

\* APITimer.objects.filter(apisheet=s, nextupdate__lte=utcnow())
update_timers(s) == {c \in Chars : timer[<<c, s>>] <= now}

\* the argument expires of apply_async
Expires == now + Hour

\* a walker of another character has failed or is in the middle of its run
OthersStuck(c) ==
    \E t \in Tasks :
        /\ task[t].character_id # c
        /\ task[t].pc \notin {"idle", "queued", "Skipped", "Aborted", "Done",
                               "Discarded"}

\* a run of the pair has ended on an error of the remote service
AbortedBefore(c, s) ==
    \E t \in Tasks :
        /\ task[t].character_id = c /\ task[t].apisheet = s
        /\ task[t].pc \in {"Aborted", "Failed"}
        /\ task[t].raised # <<>>

NewTask(c, s) ==
    [IdleTask EXCEPT !.pc = "queued", !.character_id = c, !.apisheet = s,
                     !.expires = Expires, !.others_stuck = OthersStuck(c),
                     !.after_abort = AbortedBefore(c, s)]

\* for update in update_timers: <Task>.apply_async(args=[update.character_id], ..)
RECURSIVE Dispatch(_, _, _, _)
Dispatch(tk, n, due, s) ==
    IF due = {} THEN tk
    ELSE LET c == SetMin(due)
         IN  Dispatch([tk EXCEPT ![n + 1] = NewTask(c, s)], n + 1, due \ {c}, s)

\* logger.info('Scheduled %d .. updates.' % len(update_timers))
Scheduled(s) == [apisheet |-> s, count |-> Cardinality(update_timers(s))]

Sweep(s) ==
    /\ ntasks + Cardinality(update_timers(s)) <= MaxTasks
    /\ task' = Dispatch(task, ntasks, update_timers(s), s)
    /\ ntasks' = ntasks + Cardinality(update_timers(s))
    /\ scheduled' = Scheduled(s)
    /\ UNCHANGED <<now, apikeyValid, timer, rows, feed, sheetTables,
                   refVars, sessionVars>>

(***************************************************************************)
(* The dispatch substrate: a task that has not started when its deadline   *)
(* has passed is dropped by the worker.                                    *)
(***************************************************************************)
\* (variant: a worker that ignores the deadline)
ExpiredNever(t) == FALSE

Expired(t) == now > task[t].expires

Discard(t) ==
    /\ task[t].pc = "queued"
    /\ Expired(t)
    /\ task' = [task EXCEPT ![t].pc = "Discarded"]
    /\ UNCHANGED <<now, apikeyValid, timer, rows, feed, ntasks, scheduled, sheetTables,
                   refVars, sessionVars>>

(***************************************************************************)
(* Process<..>Character.run, start: look the character and its key up.     *)
(***************************************************************************)
\* (variant: the key looked up without is_valid=True)
HasAnyKey(c) == TRUE

\* APIKey.objects.get(id=character.apikey_id, is_valid=True) finds a row
HasValidKey(c) == apikeyValid[c]

\* The number of records of the feed that are newer than everything stored,
\* when what is stored is exactly the older part of the feed; -1 otherwise.
NewRecords(c, s) ==
    IF /\ \A r \in Refs : rows[Key(c, s, r)] <= 1
       /\ \E k \in 0..feed.n : StoredRefs(c, s) = 1..k
    THEN Len(SelectSeq(FeedSeq(feed), LAMBDA r : r \notin StoredRefs(c, s)))
    ELSE -1

\* the rows stored for a character and a stream: how many of each remote id
StoreOf(c, s) ==
    CASE s \in WalkStreams -> [r \in Refs |-> rows[Key(c, s, r)]]
      [] s = "Research" -> [a \in Agents |-> research[<<c, a>>]]
      [] s = "CharacterSheet" -> [k \in SkillIds |-> charskill[<<c, k>>]]
      [] s = "MarketOrders" ->
             [o \in OrderIds |-> IF marketorder[o] = c THEN 1 ELSE 0]

\* the runs of the same task that went through to their end before now
EarlierRuns(t) ==
    {u \in Tasks \ {t} :
        /\ task[u].character_id = task[t].character_id
        /\ task[u].apisheet = task[t].apisheet
        /\ task[u].pc \in {"Done", "Failed"}}

StartTask(t) ==
    /\ task[t].pc = "queued"
    /\ ~Expired(t)
    /\ LET c == task[t].character_id
           s == task[t].apisheet
       IN  task' = [task EXCEPT ![t] =
                [(IF HasValidKey(c) THEN [@ EXCEPT !.pc = "auth"]
                                    ELSE Ended(@, "Skipped"))
                    EXCEPT !.key_valid = apikeyValid[c],
                           !.n_new = IF s \in WalkStreams
                                     THEN NewRecords(c, s) ELSE -1,
                           !.rerun_of = IF EarlierRuns(t) = {} THEN 0
                                        ELSE SetMin(EarlierRuns(t)),
                           !.before = IF EarlierRuns(t) = {} THEN <<>>
                                      ELSE StoreOf(c, s)]]
    /\ UNCHANGED <<now, apikeyValid, timer, rows, feed, ntasks, scheduled, sheetTables,
                   refVars, sessionVars>>

(***************************************************************************)
(* api.auth(..), auth.character(..) and the request of the newest page,    *)
(* all inside  try: .. except eveapi.Error, e: handle_api_exception(e,     *)
(* apikey); return.                                                        *)
(***************************************************************************)
\* where and how the first request can fail
FirstFailures ==
    {<<"auth", "AuthenticationError">>,
     <<"fetch", "AuthenticationError">>,
     <<"fetch", "TransientError">>}

\* handle_api_exception(e, apikey): the handler alone decides whether an
\* authentication error invalidates the key
KeyAfterHandler(c, e, flip) ==
    IF e = "AuthenticationError" /\ flip
    THEN [apikeyValid EXCEPT ![c] = FALSE]
    ELSE apikeyValid

\* (variant: the except branch without its return)
AfterFirstErrorNoReturn == "finalize"

\* pc of the task after the except branch: return
AfterFirstError == "Aborted"

\* the task after a page has arrived: `while walking:` and
\* `if len(sheet.transactions):` .. `else: walking = False`
Received(tk, page) ==
    [tk EXCEPT !.sheet = page,
               !.cachedUntil = CachedUntil,
               !.idx = 1,
               !.walking = page # <<>>,
               !.pc = IF page # <<>> THEN "read" ELSE "finalize",
               !.calls = @ + 1,
               !.fetched = Append(@, CachedUntil)]

\* the except branch: handle_api_exception(e, apikey); return
FirstFailed(tk, fail) ==
    [Ended(tk, AfterFirstError) EXCEPT
        !.calls = @ + 1,
        !.raised = Append(@, fail),
        !.handled = Append(@, <<tk.character_id, fail[2]>>)]

AuthFetch(t) ==
    /\ task[t].pc = "auth"
    /\ task[t].apisheet \in WalkStreams
    /\ \E fail \in {<<>>} \cup FirstFailures :
          IF fail = <<>>
          THEN /\ task' = [task EXCEPT ![t] =
                          [Received(@, Page(feed, 0)) EXCEPT
                              !.cursors = Append(@, 0)]]
               /\ UNCHANGED apikeyValid
          ELSE \E flip \in BOOLEAN :
               /\ task' = [task EXCEPT ![t] = FirstFailed(@, fail)]
               /\ apikeyValid' =
                      KeyAfterHandler(task[t].character_id, fail[2], flip)
    /\ UNCHANGED <<now, timer, rows, feed, ntasks, scheduled, sheetTables,
                   refVars, sessionVars>>

(***************************************************************************)
(* The page loop.                                                          *)
(***************************************************************************)
\* existing_entries = <Model>.objects.filter(character=character)
\*                        .values_list(<ref id>, flat=True)
\* The query set is evaluated once, by the first `in` of the page.
\* (variant: the query set of the first page kept for the whole run)
ExistingEntriesOnce(t) ==
    IF Len(task[t].fetched) <= 1
    THEN StoredRefs(task[t].character_id, task[t].apisheet)
    ELSE task[t].existing_entries

\* what the query finds when it is evaluated
ExistingEntries(t) == StoredRefs(task[t].character_id, task[t].apisheet)

ReadExisting(t) ==
    /\ task[t].pc = "read"
    /\ task' = [task EXCEPT ![t] =
            [@ EXCEPT !.existing_entries = ExistingEntries(t),
                      !.pc = "rec"]]
    /\ UNCHANGED <<now, apikeyValid, timer, rows, feed, ntasks, scheduled, sheetTables,
                   refVars, sessionVars>>

\* (variant: no record is ever recognised as stored)
KnownNever(t, r) == FALSE

\* `transaction.refID in existing_entries`
Known(t, r) == r \in task[t].existing_entries

\* Only ProcessWalletTransactionsCharacter wraps entry.save() in
\* try: .. except IntegrityError: .. continue
CatchesIntegrityError(s) == s = "WalletTransactions"

\* pc after the last record of the page: `if walking:` fetch the next page,
\* otherwise the while loop ends
AfterRecord(tk) ==
    IF tk.idx < Len(tk.sheet)
    THEN [tk EXCEPT !.idx = @ + 1]
    ELSE [tk EXCEPT !.pc = IF tk.walking THEN "next" ELSE "finalize"]

\* One turn of `for transaction in sheet.transactions:`.
ProcessRecord(t) ==
    /\ task[t].pc = "rec"
    /\ LET c == task[t].character_id
           s == task[t].apisheet
           r == task[t].sheet[task[t].idx]
       IN  IF Known(t, r)
           THEN \* walking = False; the loop goes on with the next record
                /\ task' = [task EXCEPT ![t] =
                                AfterRecord([@ EXCEPT !.walking = FALSE])]
                /\ UNCHANGED rows
           ELSE IF SaveFails(r)
           THEN \* IntegrityError
                /\ task' = [task EXCEPT ![t] =
                        IF CatchesIntegrityError(s)
                        THEN AfterRecord([@ EXCEPT !.integrity = @ + 1])
                        ELSE Ended([@ EXCEPT !.integrity = @ + 1], "Failed")]
                /\ UNCHANGED rows
           ELSE \* entry.save()
                /\ rows' = [rows EXCEPT ![Key(c, s, r)] = @ + 1]
                /\ task' = [task EXCEPT ![t] =
                        AfterRecord([@ EXCEPT
                            !.writes = Append(@, <<"insert", r>>)])]
    /\ UNCHANGED <<now, apikeyValid, timer, feed, ntasks, scheduled, sheetTables,
                   refVars, sessionVars>>

Range(q) == {q[i] : i \in 1..Len(q)}

\* the records the run has inserted so far
Inserted(t) == {w[2] : w \in {x \in Range(task[t].writes) : x[1] = "insert"}}

\* (variant: no handler of IndexError)
CatchesIndexErrorNever(s) == FALSE

\* Only ProcessWalletTransactionsCharacter catches the IndexError of
\* ..order_by('date')[:1][0] on an empty table
CatchesIndexError(s) == s = "WalletTransactions"

\* (variant: the error of a further request swallowed)
AfterNextErrorSwallowed == "finalize"

\* pc of the task after a request for a further page raised: nothing
\* catches eveapi.Error there
AfterNextError == "Failed"

\* oldest_id = ..; sheet = me.<Sheet>(rowCount=2560, fromID=oldest_id)
FetchNext(t) ==
    /\ task[t].pc = "next"
    /\ task[t].calls < MaxCalls
    /\ LET c == task[t].character_id
           s == task[t].apisheet
       IN  IF StoredRefs(c, s) = {}
           THEN \* IndexError
                task' = [task EXCEPT ![t] =
                    IF CatchesIndexError(s)
                    THEN [@ EXCEPT !.walking = FALSE, !.pc = "finalize",
                                   !.index_errors = @ + 1]
                    ELSE Ended([@ EXCEPT !.index_errors = @ + 1], "Failed")]
           ELSE \E e \in {"none"} \cup Errors :
                task' = [task EXCEPT ![t] =
                    IF e = "none"
                    THEN [Received(@, Page(feed, Oldest(c, s))) EXCEPT
                             !.cursors = Append(@, Oldest(c, s)),
                             !.overlap =
                                 IF /\ @ = 0
                                    /\ \E i \in 1..Len(Page(feed, Oldest(c, s))) :
                                          Page(feed, Oldest(c, s))[i] \in Inserted(t)
                                 THEN Len(task[t].fetched) + 1 ELSE @]
                    ELSE [Ended(@, AfterNextError) EXCEPT
                                   !.calls = @ + 1,
                                   !.raised = Append(@, <<"next", e>>)]]
    /\ UNCHANGED <<now, apikeyValid, timer, rows, feed, ntasks, scheduled, sheetTables,
                   refVars, sessionVars>>

\* (variant: the cachedUntil of the first page of the run)
NextUpdateFirstPage(t) == task[t].fetched[1]

\* timer.nextupdate = sheet._meta.cachedUntil
NextUpdate(t) == task[t].cachedUntil

\* timer = APITimer.objects.get(..); timer.nextupdate = ..; timer.save()
\* (variant: every walker with the apisheet of the journal walker)
OwnTimerJournal(t) == <<task[t].character_id, "WalletJournal">>

\* APITimer.objects.get(character=character, apisheet=<the sheet of the walker>)
OwnTimer(t) == <<task[t].character_id, task[t].apisheet>>

Finalize(t) ==
    /\ task[t].pc = "finalize"
    /\ timer' = [timer EXCEPT ![OwnTimer(t)] = NextUpdate(t)]
    /\ task' = [task EXCEPT ![t] =
            [Ended(@, "Done") EXCEPT
                      !.writes = Append(@, <<"timer", NextUpdate(t)>>)]]
    /\ UNCHANGED <<now, apikeyValid, rows, feed, ntasks, scheduled, sheetTables,
                   refVars, sessionVars>>

(***************************************************************************)
(* The walkers of the streams that are fetched whole: research agents,     *)
(* market orders and the character sheet.  They start like the wallet      *)
(* walkers (StartTask), make one request inside the same try block and end *)
(* by writing the timer (Finalize).                                        *)
(***************************************************************************)
RECURSIVE SetToSeq(_)
SetToSeq(S) ==
    IF S = {} THEN <<>> ELSE <<SetMin(S)>> \o SetToSeq(S \ {SetMin(S)})

\* sheet.research of me.Research(): the agents the character has a job with
ResearchSheets == {SetToSeq(S) : S \in SUBSET Agents}

\* sheet.skills of me.CharacterSheet(): the skills the character has trained
SkillSheets == {SetToSeq(1..k) : k \in 0..MaxSkills}

\* orders.orders of me.MarketOrders(): the orders 1..m; at most one of them
\* is at a station missing from StaStation or of a type the static data
\* does not know
OrderSheet(m, ns, nt) ==
    [i \in 1..m |-> [id |-> i, station_ok |-> i # ns, type_ok |-> i # nt]]

OrderSheets ==
    {OrderSheet(x[1], x[2], x[3]) :
        x \in {y \in (0..MaxOrders) \X (0..MaxOrders) \X (0..MaxOrders) :
                  y[2] <= y[1] /\ y[3] <= y[1] /\ (y[2] = 0 \/ y[3] = 0)}}

Responses(s) ==
    CASE s = "Research" -> ResearchSheets
      [] s = "MarketOrders" -> OrderSheets
      [] s = "CharacterSheet" -> SkillSheets

\* where run() goes on after the try block
AfterSheet(s, page) ==
    CASE s = "Research" -> "clear"
      [] s = "MarketOrders" -> IF page = <<>> THEN "finalize" ELSE "order"
      [] s = "CharacterSheet" -> "charsave"

ReceivedSheet(tk, page) ==
    [tk EXCEPT !.sheet = page,
               !.cachedUntil = CachedUntil,
               !.idx = 1,
               !.pc = AfterSheet(tk.apisheet, page),
               !.response = page,
               !.calls = @ + 1,
               !.fetched = Append(@, CachedUntil)]

\* auth = api.auth(..); me = auth.character(..); sheet = me.<Sheet>()
FetchSheet(t) ==
    /\ task[t].pc = "auth"
    /\ task[t].apisheet \in SheetStreams
    /\ \E fail \in {<<>>} \cup FirstFailures :
          IF fail = <<>>
          THEN /\ \E page \in Responses(task[t].apisheet) :
                     task' = [task EXCEPT ![t] = ReceivedSheet(@, page)]
               /\ UNCHANGED apikeyValid
          ELSE \E flip \in BOOLEAN :
               /\ task' = [task EXCEPT ![t] = FirstFailed(@, fail)]
               /\ apikeyValid' =
                      KeyAfterHandler(task[t].character_id, fail[2], flip)
    /\ UNCHANGED <<now, timer, rows, feed, ntasks, scheduled, sheetTables,
                   refVars, sessionVars>>

\* the next turn of a for loop over the response, or the code after it
NextItem(tk, pc) ==
    IF tk.idx < Len(tk.sheet)
    THEN [tk EXCEPT !.idx = @ + 1, !.pc = pc]
    ELSE [tk EXCEPT !.pc = "finalize"]

\* Research.objects.filter(character=character).delete()
\* (variant: Research.objects.all())
JobsOfAll(c, k) == TRUE

\* the rows of Research.objects.filter(character=character)
JobsOf(c, k) == k[1] = c

ClearJobs(t) ==
    /\ task[t].pc = "clear"
    /\ LET c == task[t].character_id
       IN  /\ research' = [k \in Chars \X Agents |->
                              IF JobsOf(c, k) THEN 0 ELSE research[k]]
           /\ task' = [task EXCEPT ![t] =
                  [@ EXCEPT !.pc = IF task[t].sheet = <<>> THEN "finalize" ELSE "job",
                            !.writes = Append(@, <<"delete", c>>)]]
    /\ UNCHANGED <<now, apikeyValid, timer, rows, charskill, orders,
                   marketorder, feed, ntasks, scheduled,
                   refVars, sessionVars>>

\* new_job = Research(character=character, agent_id=job.agentID, ..); new_job.save()
SaveJob(t) ==
    /\ task[t].pc = "job"
    /\ LET c == task[t].character_id
           a == task[t].sheet[task[t].idx]
       IN  /\ research' = [research EXCEPT ![<<c, a>>] = @ + 1]
           /\ task' = [task EXCEPT ![t] =
                  NextItem([@ EXCEPT !.writes = Append(@, <<"insert", a>>)],
                           "job")]
    /\ UNCHANGED <<now, apikeyValid, timer, rows, charskill, orders,
                   marketorder, feed, ntasks, scheduled,
                   refVars, sessionVars>>

\* character.corp_name = ..; ..; character.save()
SaveCharacter(t) ==
    /\ task[t].pc = "charsave"
    /\ task' = [task EXCEPT ![t] =
           [@ EXCEPT !.pc = IF task[t].sheet = <<>> THEN "finalize" ELSE "skget",
                     !.writes = Append(@, <<"character", task[t].character_id>>)]]
    /\ UNCHANGED <<now, apikeyValid, timer, rows, feed, ntasks, scheduled,
                   sheetTables,
                   refVars, sessionVars>>

\* c_skill = CharSkill.objects.get(character=character, skill_id=skill.typeID)
GetSkill(t) ==
    /\ task[t].pc = "skget"
    /\ task' = [task EXCEPT ![t] =
           [@ EXCEPT !.found = charskill[<<task[t].character_id,
                                           task[t].sheet[task[t].idx]>>],
                     !.pc = "skput"]]
    /\ UNCHANGED <<now, apikeyValid, timer, rows, feed, ntasks, scheduled,
                   sheetTables,
                   refVars, sessionVars>>

\* get() returned a row: exactly one row matched.  With no row it raises
\* DoesNotExist, with several MultipleObjectsReturned; the bare except
\* takes both.
GotSkill(t) == task[t].found = 1

\* c_skill.save() of the row found, or, in the except branch,
\* new_skill = CharSkill(..); new_skill.save()
PutSkill(t) ==
    /\ task[t].pc = "skput"
    /\ LET c == task[t].character_id
           k == task[t].sheet[task[t].idx]
       IN  IF GotSkill(t)
           THEN /\ task' = [task EXCEPT ![t] =
                       NextItem([@ EXCEPT !.found = 0,
                                          !.writes = Append(@, <<"update", k>>)],
                                "skget")]
                /\ UNCHANGED charskill
           ELSE /\ charskill' = [charskill EXCEPT ![<<c, k>>] = @ + 1]
                /\ task' = [task EXCEPT ![t] =
                       NextItem([@ EXCEPT !.found = 0,
                                          !.writes = Append(@, <<"insert", k>>)],
                                "skget")]
    /\ UNCHANGED <<now, apikeyValid, timer, rows, research, orders,
                   marketorder, feed, ntasks, scheduled,
                   refVars, sessionVars>>

\* The first half of a turn of `for order in orders.orders:`: update the
\* Orders row of the order or, when there is none, look its station up and
\* create the row.
SaveOrder(t) ==
    /\ task[t].pc = "order"
    /\ LET o == task[t].sheet[task[t].idx]
       IN  IF o.id \in orders
           THEN \* db_order.save()
                /\ task' = [task EXCEPT ![t] =
                       [@ EXCEPT !.pc = "morder",
                                 !.writes = Append(@, <<"update", o.id>>)]]
                /\ UNCHANGED orders
           ELSE IF ~o.station_ok
           THEN \* StaStation.objects.get(id=order.stationID): DoesNotExist
                /\ task' = [task EXCEPT ![t] = Ended(@, "Failed")]
                /\ UNCHANGED orders
           ELSE IF ~o.type_ok
           THEN \* new_order.save(): IntegrityError .. continue
                /\ task' = [task EXCEPT ![t] =
                       NextItem([@ EXCEPT !.integrity = @ + 1], "order")]
                /\ UNCHANGED orders
           ELSE \* new_order.save()
                /\ orders' = orders \cup {o.id}
                /\ task' = [task EXCEPT ![t] =
                       [@ EXCEPT !.pc = "morder",
                                 !.writes = Append(@, <<"insert", o.id>>)]]
    /\ UNCHANGED <<now, apikeyValid, timer, rows, research, charskill,
                   marketorder, feed, ntasks, scheduled,
                   refVars, sessionVars>>

\* The second half: update the MarketOrder row of the order, or create it
\* for this character.
SaveMarketOrder(t) ==
    /\ task[t].pc = "morder"
    /\ LET o == task[t].sheet[task[t].idx]
       IN  /\ marketorder' =
                  IF marketorder[o.id] # 0 THEN marketorder
                  ELSE [marketorder EXCEPT ![o.id] = task[t].character_id]
           /\ task' = [task EXCEPT ![t] =
                  NextItem([@ EXCEPT !.writes =
                      Append(@, <<IF marketorder[o.id] # 0 THEN "update_mo"
                                  ELSE "insert_mo", o.id>>)], "order")]
    /\ UNCHANGED <<now, apikeyValid, timer, rows, research, charskill,
                   orders, feed, ntasks, scheduled,
                   refVars, sessionVars>>

(***************************************************************************)
(* ProcessConquerableStations, ProcessRefTypes, ProcessAPISkillTree: the   *)
(* periodic tasks that reload a reference table from a list of the remote  *)
(* service.  A row of a reference table has the remote id as primary key,  *)
(* so the table never holds two rows of one id.  save() of an object with  *)
(* a primary key first looks whether the row exists (and then updates it)  *)
(* and inserts otherwise; another run can insert between the two steps.    *)
(***************************************************************************)
OldName == 1   \* the name a row stored before the run carries
NewName == 2   \* the name the remote list gives

\* stations.outposts / ref_types.refTypes / the groups and skills of
\* skilltree.skillGroups: the ids 1..m
RefLists == {SetToSeq(1..m) : m \in 0..MaxItems}

\* ProcessAPISkillTree saves every item without looking it up first
LooksUpFirst(kind) == kind \in {"ConquerableStations", "RefTypes"}

\* Only ProcessConquerableStations wraps the save() of a new row in
\* try: .. except IntegrityError: logger.warning(..)
CatchesInsertRace(kind) == kind = "ConquerableStations"

\* the next turn of the for loop, or the end of run()
NextRefItem(rn) ==
    IF rn.idx < Len(rn.list)
    THEN [rn EXCEPT !.idx = @ + 1,
                    !.pc = IF LooksUpFirst(rn.kind) THEN "get" ELSE "save"]
    ELSE [rn EXCEPT !.pc = "Done"]

\* api = eveapi.EVEAPIConnection(); <list> = api.eve.<List>()
\* Nothing catches an error of the request.
FetchRefList(r) ==
    /\ refrun[r].pc = "idle"
    /\ \E kind \in RefKinds, list \in RefLists, ok \in BOOLEAN :
          refrun' = [refrun EXCEPT ![r] =
              IF ~ok THEN [@ EXCEPT !.kind = kind, !.pc = "Failed"]
              ELSE IF list = <<>> THEN [@ EXCEPT !.kind = kind, !.pc = "Done"]
              ELSE [@ EXCEPT !.kind = kind, !.list = list, !.idx = 1,
                             !.pc = IF LooksUpFirst(kind) THEN "get" ELSE "save"]]
    /\ UNCHANGED <<now, apikeyValid, timer, rows, feed, task, ntasks,
                   scheduled, sheetTables, reftable, sessionVars>>

\* <Model>.objects.get(id=..); found: set the name and save(), which updates
\* the row; DoesNotExist: go on to create the row
GetRefItem(r) ==
    /\ refrun[r].pc = "get"
    /\ LET kind == refrun[r].kind
           i == refrun[r].list[refrun[r].idx]
       IN  IF reftable[kind][i] # 0
           THEN /\ reftable' = [reftable EXCEPT ![kind][i] = NewName]
                /\ refrun' = [refrun EXCEPT ![r] =
                       NextRefItem([@ EXCEPT !.saved = @ \cup {i}])]
           ELSE /\ refrun' = [refrun EXCEPT ![r].pc = "save"]
                /\ UNCHANGED reftable
    /\ UNCHANGED <<now, apikeyValid, timer, rows, feed, task, ntasks,
                   scheduled, sheetTables, sessionVars>>

\* save() of an object built with id=..: the row exists -> UPDATE
SaveRefItem(r) ==
    /\ refrun[r].pc = "save"
    /\ LET kind == refrun[r].kind
           i == refrun[r].list[refrun[r].idx]
       IN  IF reftable[kind][i] # 0
           THEN /\ reftable' = [reftable EXCEPT ![kind][i] = NewName]
                /\ refrun' = [refrun EXCEPT ![r] =
                       NextRefItem([@ EXCEPT !.saved = @ \cup {i}])]
           ELSE /\ refrun' = [refrun EXCEPT ![r].pc = "insert"]
                /\ UNCHANGED reftable
    /\ UNCHANGED <<now, apikeyValid, timer, rows, feed, task, ntasks,
                   scheduled, sheetTables, sessionVars>>

\* .. the row did not exist -> INSERT, which raises IntegrityError when
\* the row has been inserted since
InsertRefItem(r) ==
    /\ refrun[r].pc = "insert"
    /\ LET kind == refrun[r].kind
           i == refrun[r].list[refrun[r].idx]
       IN  IF reftable[kind][i] # 0
           THEN /\ refrun' = [refrun EXCEPT ![r] =
                       IF CatchesInsertRace(kind)
                       THEN NextRefItem([@ EXCEPT !.integrity = @ + 1])
                       ELSE [@ EXCEPT !.integrity = @ + 1, !.pc = "Failed"]]
                /\ UNCHANGED reftable
           ELSE /\ reftable' = [reftable EXCEPT ![kind][i] = NewName]
                /\ refrun' = [refrun EXCEPT ![r] =
                       NextRefItem([@ EXCEPT !.saved = @ \cup {i}])]
    /\ UNCHANGED <<now, apikeyValid, timer, rows, feed, task, ntasks,
                   scheduled, sheetTables, sessionVars>>

\* the reference-data tasks alone, over tables that hold the first k ids
InitRef ==
    /\ now = 0
    /\ apikeyValid = [c \in Chars |-> TRUE]
    /\ timer = [p \in Chars \X Streams |-> 0]
    /\ feed = [n |-> 0, dup |-> 0, bad |-> 0, incl |-> FALSE]
    /\ rows = [key \in Keys |-> 0]
    /\ research = [k \in Chars \X Agents |-> 0]
    /\ charskill = [k \in Chars \X SkillIds |-> 0]
    /\ orders = {}
    /\ marketorder = [o \in OrderIds |-> 0]
    /\ task = [t \in Tasks |-> IdleTask]
    /\ ntasks = 0
    /\ scheduled = [apisheet |-> "", count |-> 0]
    /\ \E k \in 0..MaxItems :
          reftable = [kind \in RefKinds |->
                         [i \in Items |-> IF i <= k THEN OldName ELSE 0]]
    /\ refrun = [r \in Runs |-> IdleRun]
    /\ history = <<>>
    /\ called = IdleCall
    /\ bill = NoBill

NextRef ==
    \/ \E r \in Runs : FetchRefList(r)
    \/ \E r \in Runs : GetRefItem(r)
    \/ \E r \in Runs : SaveRefItem(r)
    \/ \E r \in Runs : InsertRefItem(r)

SpecRef == InitRef /\ [][NextRef]_vars

(***************************************************************************)
(* manufacturing/functions.py, update_blueprint_history: the blueprints a  *)
(* session has looked at, newest first.  A list is a sequence; an entry is *)
(* {'id': .., 'name': ..} of the blueprint type.                           *)
(***************************************************************************)
\* blueprint.blueprint_type.name: the name of a type is given by its id
NameOf(b) == b + MaxBlueprints

\* {'id': blueprint.blueprint_type.id, 'name': blueprint.blueprint_type.name}
Entry(b) == [id |-> b, name |-> NameOf(b)]

\* (variant: only the newest entry is compared)
add_entry_newest(h, b) == h = <<>> \/ h[1].id # b

\* add_entry after `for entry in history: if entry['id'] == ..: add_entry = False`
add_entry(h, b) == \A i \in 1..Len(h) : h[i].id # b

\* if len(history) == MANUFACTURING_MAX_BLUEPRINT_HISTORY: del history[-1]
Trimmed(h) ==
    IF Len(h) = MANUFACTURING_MAX_BLUEPRINT_HISTORY
    THEN SubSeq(h, 1, Len(h) - 1)
    ELSE h

\* the list stored in the session at the end of update_blueprint_history
NewHistory(h, b) ==
    IF add_entry(h, b)
    THEN <<Entry(b)>> \o Trimmed(h)      \* history.insert(0, {..})
    ELSE h

update_blueprint_history(b) ==
    /\ history' = NewHistory(history, b)
    /\ called' = [blueprint |-> b, before |-> history,
                  deleted |-> IF add_entry(history, b) /\ Trimmed(history) # history
                              THEN history[Len(history)].id ELSE called.deleted]
    /\ UNCHANGED <<now, apikeyValid, timer, rows, feed, task, ntasks,
                   scheduled, sheetTables, refVars, bill>>

\* request.session.get(MANUFACTURING_BLUEPRINT_HISTORY_SESSION, []) of a new session
InitHistory ==
    /\ InitRef
    /\ reftable = [kind \in RefKinds |-> [i \in Items |-> 0]]

NextHistory == \E b \in Blueprints : update_blueprint_history(b)

SpecHistory == InitHistory /\ [][NextHistory]_vars

(***************************************************************************)
(* manufacturing/functions.py, merge_bill_of_materials.  A bill of         *)
(* materials is a list of dicts; the entries get_materials builds are      *)
(* dicts of their own, one per entry.  The function appends the dicts it   *)
(* is given to its result and adds to their quantity in place, so the      *)
(* dicts are kept in a heap: position i of itertools.chain(materials1,     *)
(* materials2) is the object i, and a list is a sequence of objects.       *)
(***************************************************************************)
\* {'id': .., 'quantity': ..}: the keys the function reads
Entries == [id : Materials, quantity : 1..MaxQuantity]

\* materials1 / materials2 as get_materials builds them
Bills == UNION {[1..n -> Entries] : n \in 0..MaxBill}

\* (variant: material['quantity'] = item['quantity'])
Replaced(q, r) == r

\* material['quantity'] += item['quantity']
Added(q, r) == q + r

\* the first material of `for material in materials:` with the id of the
\* item, 0 when the loop ends without one (is_in_materials = False)
RECURSIVE FirstWithId(_, _, _, _)
FirstWithId(heap, materials, id, k) ==
    IF k > Len(materials) THEN 0
    ELSE IF heap[materials[k]].id = id THEN materials[k]
    ELSE FirstWithId(heap, materials, id, k + 1)

\* `for item in itertools.chain(materials1, materials2):` from object i on
RECURSIVE MergeFrom(_, _, _)
MergeFrom(heap, materials, i) ==
    IF i > Len(heap) THEN [heap |-> heap, materials |-> materials]
    ELSE LET m == FirstWithId(heap, materials, heap[i].id, 1)
         IN  IF m # 0
             THEN MergeFrom([heap EXCEPT ![m].quantity =
                                 Added(@, heap[i].quantity)],
                            materials, i + 1)
             ELSE MergeFrom(heap, Append(materials, i), i + 1)

\* the list returned: the dicts of `materials` as they are at the return
merge_bill_of_materials(materials1, materials2) ==
    LET out == MergeFrom(materials1 \o materials2, <<>>, 1)
    IN  [k \in 1..Len(out.materials) |-> out.heap[out.materials[k]]]

\* get_materials up to the call: materials1 from the build requirements,
\* materials2 from the extra materials (one call during a behaviour)
BuildBills ==
    /\ bill.pc = "idle"
    /\ \E m1 \in Bills, m2 \in Bills :
          bill' = [pc |-> "built", materials1 |-> m1, materials2 |-> m2,
                   materials |-> <<>>]
    /\ UNCHANGED <<now, apikeyValid, timer, rows, feed, task, ntasks,
                   scheduled, sheetTables, refVars, history, called>>

\* materials = merge_bill_of_materials(materials1, materials2)
MergeBills ==
    /\ bill.pc = "built"
    /\ bill' = [bill EXCEPT
                   !.materials = merge_bill_of_materials(bill.materials1,
                                                         bill.materials2),
                   !.pc = "returned"]
    /\ UNCHANGED <<now, apikeyValid, timer, rows, feed, task, ntasks,
                   scheduled, sheetTables, refVars, history, called>>

NextMerge == BuildBills \/ MergeBills

SpecMerge == InitHistory /\ [][NextMerge]_vars

\* the wallet streams alone
Next ==
    \/ Tick
    \/ \E s \in WalkStreams : Sweep(s)
    \/ \E t \in Tasks : Discard(t)
    \/ \E t \in Tasks : StartTask(t)
    \/ \E t \in Tasks : AuthFetch(t)
    \/ \E t \in Tasks : ReadExisting(t)
    \/ \E t \in Tasks : ProcessRecord(t)
    \/ \E t \in Tasks : FetchNext(t)
    \/ \E t \in Tasks : Finalize(t)

Spec == Init /\ [][Next]_vars

(***************************************************************************)
(* The wallet streams when the characters do not come due together: the    *)
(* journal of the first d characters and the transactions of the last d    *)
(* are due at the start, over a remote feed of at most two records.        *)
(***************************************************************************)
InitStaggered ==
    /\ now = 0
    /\ apikeyValid = [c \in Chars |-> TRUE]
    /\ \E d \in 1..(NumChars - 1) :
          timer = [p \in Chars \X Streams |->
                      IF (IF p[2] = "WalletTransactions"
                          THEN NumChars + 1 - p[1] ELSE p[1]) <= d
                      THEN 0 ELSE 1]
    /\ feed \in Feeds
    /\ feed.n <= 2
    /\ \E k \in 0..MaxRef :
          /\ k <= feed.n
          /\ rows = [key \in Keys |->
                        IF key[3] <= k /\ ~SaveFails(key[3]) THEN 1 ELSE 0]
    /\ research = [k \in Chars \X Agents |-> 0]
    /\ charskill = [k \in Chars \X SkillIds |-> 0]
    /\ orders = {}
    /\ marketorder = [o \in OrderIds |-> 0]
    /\ task = [t \in Tasks |-> IdleTask]
    /\ ntasks = 0
    /\ scheduled = [apisheet |-> "", count |-> 0]
    /\ reftable = [k \in RefKinds |-> [i \in Items |-> 0]]
    /\ refrun = [r \in Runs |-> IdleRun]
    /\ history = <<>>
    /\ called = IdleCall
    /\ bill = NoBill

SpecStaggered == InitStaggered /\ [][Next]_vars

\* a sweep that finds a timer due (the others only log that they found none)
SweepDue(s) == update_timers(s) # {} /\ Sweep(s)

(***************************************************************************)
(* One wallet stream of the first character under a worker that goes on    *)
(* with every task it has: a step of a task that can be taken is taken in  *)
(* the end.  Nothing is assumed of the clock, of the sweeps or of the      *)
(* answers of the remote service.  The feed has at most two records.       *)
(***************************************************************************)
InitLive ==
    /\ now = 0
    /\ apikeyValid = [c \in Chars |-> TRUE]
    /\ \E s \in WalkStreams :
          timer = [p \in Chars \X Streams |->
                      IF p = <<1, s>> THEN 0 ELSE MaxTime + 1]
    /\ feed \in Feeds
    /\ feed.n <= 2
    /\ \E k \in 0..MaxRef :
          /\ k <= feed.n
          /\ rows = [key \in Keys |->
                        IF key[3] <= k /\ ~SaveFails(key[3]) THEN 1 ELSE 0]
    /\ research = [k \in Chars \X Agents |-> 0]
    /\ charskill = [k \in Chars \X SkillIds |-> 0]
    /\ orders = {}
    /\ marketorder = [o \in OrderIds |-> 0]
    /\ task = [t \in Tasks |-> IdleTask]
    /\ ntasks = 0
    /\ scheduled = [apisheet |-> "", count |-> 0]
    /\ reftable = [k \in RefKinds |-> [i \in Items |-> 0]]
    /\ refrun = [r \in Runs |-> IdleRun]
    /\ history = <<>>
    /\ called = IdleCall
    /\ bill = NoBill

\* the worker executes the tasks it has received
WorkerFairness ==
    \A t \in Tasks :
        /\ WF_vars(Discard(t))
        /\ WF_vars(StartTask(t))
        /\ WF_vars(AuthFetch(t))
        /\ WF_vars(ReadExisting(t))
        /\ WF_vars(ProcessRecord(t))
        /\ WF_vars(FetchNext(t))
        /\ WF_vars(Finalize(t))

NextLive ==
    \/ Tick
    \/ \E s \in WalkStreams : SweepDue(s)
    \/ \E t \in Tasks : Discard(t)
    \/ \E t \in Tasks : StartTask(t)
    \/ \E t \in Tasks : AuthFetch(t)
    \/ \E t \in Tasks : ReadExisting(t)
    \/ \E t \in Tasks : ProcessRecord(t)
    \/ \E t \in Tasks : FetchNext(t)
    \/ \E t \in Tasks : Finalize(t)

SpecLive == InitLive /\ [][NextLive]_vars /\ WorkerFairness

(***************************************************************************)
(* The wallet journal of the first character with a remote service that    *)
(* answers every request, a periodic task that keeps sweeping and a worker *)
(* that goes on with every task it has.  A task that has ended is gone     *)
(* from the worker, so the sweeps can dispatch without end.                *)
(***************************************************************************)
InitFair ==
    /\ InitLive
    /\ timer[<<1, "WalletJournal">>] = 0

\* sheet = me.WalletJournal(rowCount=..), answered
AuthFetchOk(t) == AuthFetch(t) /\ task'[t].raised = <<>>

\* sheet = me.WalletJournal(rowCount=.., fromID=oldest_id), answered
FetchNextOk(t) == FetchNext(t) /\ task'[t].raised = <<>>

\* run() has returned or raised in every task: the worker holds none of them
Forget ==
    /\ ntasks > 0
    /\ \A t \in Tasks : task[t].pc \in Terminal \cup {"idle"}
    /\ task' = [t \in Tasks |-> IdleTask]
    /\ ntasks' = 0
    /\ UNCHANGED <<now, apikeyValid, timer, rows, feed, scheduled, sheetTables,
                   refVars, sessionVars>>

NextFair ==
    \/ Tick
    \/ SweepDue("WalletJournal")
    \/ Forget
    \/ \E t \in Tasks : Discard(t)
    \/ \E t \in Tasks : StartTask(t)
    \/ \E t \in Tasks : AuthFetchOk(t)
    \/ \E t \in Tasks : ReadExisting(t)
    \/ \E t \in Tasks : ProcessRecord(t)
    \/ \E t \in Tasks : FetchNextOk(t)
    \/ \E t \in Tasks : Finalize(t)

\* run_every = datetime.timedelta(minutes=5): the sweep runs again and again
SweepFairness == WF_vars(SweepDue("WalletJournal")) /\ WF_vars(Forget)

SpecFair == InitFair /\ [][NextFair]_vars /\ WorkerFairness /\ SweepFairness

(***************************************************************************)
(* All five streams, over a remote wallet feed of at most one record.      *)
(***************************************************************************)
InitAll == Init /\ feed.n <= 1

NextAll ==
    \/ Tick
    \/ \E s \in Streams : Sweep(s)
    \/ \E t \in Tasks : Discard(t)
    \/ \E t \in Tasks : StartTask(t)
    \/ \E t \in Tasks : AuthFetch(t)
    \/ \E t \in Tasks : ReadExisting(t)
    \/ \E t \in Tasks : ProcessRecord(t)
    \/ \E t \in Tasks : FetchNext(t)
    \/ \E t \in Tasks : FetchSheet(t)
    \/ \E t \in Tasks : ClearJobs(t)
    \/ \E t \in Tasks : SaveJob(t)
    \/ \E t \in Tasks : SaveCharacter(t)
    \/ \E t \in Tasks : GetSkill(t)
    \/ \E t \in Tasks : PutSkill(t)
    \/ \E t \in Tasks : SaveOrder(t)
    \/ \E t \in Tasks : SaveMarketOrder(t)
    \/ \E t \in Tasks : Finalize(t)

SpecAll == InitAll /\ [][NextAll]_vars

(***************************************************************************)
(* Repeated runs of one task, executed by a single worker process, so that *)
(* a task starts only when no other task is under way.  Only one stream of *)
(* the first character ever comes due: a wallet stream over any feed, or   *)
(* one of the other streams (the wallet is empty then).                    *)
(***************************************************************************)
InitSerial ==
    /\ now = 0
    /\ apikeyValid = [c \in Chars |-> TRUE]
    /\ feed \in Feeds
    /\ \E s \in Streams :
          /\ s \in SheetStreams => feed.n = 0 /\ ~feed.incl
          /\ timer = [p \in Chars \X Streams |->
                         IF p = <<1, s>> THEN 0 ELSE MaxTime + 1]
    /\ \E k \in 0..MaxRef :
          /\ k <= feed.n
          /\ rows = [key \in Keys |->
                        IF key[3] <= k /\ ~SaveFails(key[3]) THEN 1 ELSE 0]
    /\ research = [k \in Chars \X Agents |-> 0]
    /\ charskill = [k \in Chars \X SkillIds |-> 0]
    /\ orders = {}
    /\ marketorder = [o \in OrderIds |-> 0]
    /\ task = [t \in Tasks |-> IdleTask]
    /\ ntasks = 0
    /\ scheduled = [apisheet |-> "", count |-> 0]
    /\ reftable = [k \in RefKinds |-> [i \in Items |-> 0]]
    /\ refrun = [r \in Runs |-> IdleRun]
    /\ history = <<>>
    /\ called = IdleCall
    /\ bill = NoBill

NoneUnderWay ==
    \A u \in Tasks : task[u].pc \in {"idle", "queued"} \cup Terminal

StartAlone(t) == NoneUnderWay /\ StartTask(t)

NextSerial ==
    \/ Tick
    \/ \E s \in Streams : SweepDue(s)
    \/ \E t \in Tasks : Discard(t)
    \/ \E t \in Tasks : StartAlone(t)
    \/ \E t \in Tasks : AuthFetch(t)
    \/ \E t \in Tasks : ReadExisting(t)
    \/ \E t \in Tasks : ProcessRecord(t)
    \/ \E t \in Tasks : FetchNext(t)
    \/ \E t \in Tasks : FetchSheet(t)
    \/ \E t \in Tasks : ClearJobs(t)
    \/ \E t \in Tasks : SaveJob(t)
    \/ \E t \in Tasks : SaveCharacter(t)
    \/ \E t \in Tasks : GetSkill(t)
    \/ \E t \in Tasks : PutSkill(t)
    \/ \E t \in Tasks : SaveOrder(t)
    \/ \E t \in Tasks : SaveMarketOrder(t)
    \/ \E t \in Tasks : Finalize(t)

SpecSerial == InitSerial /\ [][NextSerial]_vars

(***************************************************************************)
(* Properties.                                                             *)
(***************************************************************************)
Last(q) == q[Len(q)]
PairOf(t) == <<task[t].character_id, task[t].apisheet>>
Finished == \A t \in Tasks : task[t].pc \in Terminal \cup {"idle"}
WroteTimer(t) == \E w \in Range(task[t].writes) : w[1] = "timer"

\* C1: once every dispatched walker has ended, no (character, stream, ref
\* id) has more than one row, whatever the interleaving of the walkers and
\* also when a page lists a record twice.
C1_OneRowPerRecord ==
    Finished => \A k \in Keys : rows[k] <= 1

\* C2: at the step at which a walker reaches Done, the timer of its pair is
\* the cachedUntil of the last page the run received, after one page or
\* after several.
C2_TimerIsLastCachedUntil ==
    [][\A t \in Tasks :
          (task[t].pc # "Done" /\ task'[t].pc = "Done")
          => /\ task'[t].fetched # <<>>
             /\ timer'[PairOf(t)] = Last(task'[t].fetched)]_vars

C2_Witness ==
    \E t \in Tasks :
        /\ task[t].pc = "Done"
        /\ Len(task[t].fetched) >= 2
        /\ task[t].fetched[1] # Last(task[t].fetched)
        /\ timer[PairOf(t)] = Last(task[t].fetched)

\* C3: a run whose authentication or first request failed is aborted and
\* has written nothing: no row and no timer.
C3_FirstFailureAborts ==
    \A t \in Tasks :
        (task[t].raised # <<>> /\ task[t].raised[1][1] \in {"auth", "fetch"})
        => /\ task[t].pc = "Aborted"
           /\ task[t].writes = <<>>
           /\ task[t].fetched = <<>>

C3_Witness ==
    /\ \E t \in Tasks :
          /\ task[t].pc = "Aborted"
          /\ task[t].apisheet = "WalletJournal"
          /\ task[t].raised[1][1] = "auth"
    /\ \E t \in Tasks :
          /\ task[t].pc = "Aborted"
          /\ task[t].apisheet = "Research"
          /\ task[t].raised[1] = <<"fetch", "TransientError">>

\* C4: a run whose request for a further page failed has not written its
\* timer, and every row it inserted from the earlier pages is still stored.
C4_PartialProgressRetained ==
    \A t \in Tasks :
        (task[t].raised # <<>> /\ task[t].raised[1][1] = "next")
        => /\ ~WroteTimer(t)
           /\ \A r \in Inserted(t) :
                 rows[Key(task[t].character_id, task[t].apisheet, r)] >= 1

C4_Witness ==
    \E t \in Tasks :
        /\ task[t].raised # <<>>
        /\ task[t].raised[1][1] = "next"
        /\ Inserted(t) # {}
        /\ timer[PairOf(t)] <= now

\* C5: a run that found no valid key when it started is over at once: it
\* made no remote call, wrote no row and no timer, and reported no error.
C5_NoCredentialSkip ==
    \A t \in Tasks :
        (task[t].pc \notin {"idle", "queued", "Discarded"} /\ ~task[t].key_valid)
        => /\ task[t].pc = "Skipped"
           /\ task[t].calls = 0
           /\ task[t].writes = <<>>
           /\ task[t].handled = <<>>

C5_Witness ==
    \E t \in Tasks :
        /\ task[t].pc = "Skipped"
        /\ ~task[t].key_valid
        /\ task[t].apisheet = "CharacterSheet"

Ceil(a, b) == (a + b - 1) \div b

C7_SweepDispatchesDue ==
    [][(ntasks' # ntasks \/ scheduled' # scheduled)
       => LET s == scheduled'.apisheet
              new == (ntasks + 1)..ntasks'
          IN  /\ \A c \in Chars :
                    Cardinality({t \in new : /\ task'[t].character_id = c
                                             /\ task'[t].apisheet = s
                                             /\ task'[t].pc = "queued"})
                        = IF timer[<<c, s>>] <= now THEN 1 ELSE 0
              /\ \A t \in new : task'[t].apisheet = s
              /\ scheduled'.count = ntasks' - ntasks]_vars

C7_Witness ==
    /\ ntasks = 1
    /\ scheduled.count = 1
    /\ task[1].pc = "queued"
    /\ \E c \in Chars : timer[<<c, scheduled.apisheet>>] > now
    /\ timer[<<task[1].character_id, scheduled.apisheet>>] = now

\* C8: when a walker handles a record of a page of which more than one row
\* is stored, exactly one of those rows is left, and the walker goes on.
C8_DuplicatesReduced ==
    [][\A t \in Tasks :
          (task[t].pc = "rec" /\ task'[t] # task[t])
          => LET k == Key(task[t].character_id, task[t].apisheet,
                          task[t].sheet[task[t].idx])
             IN  rows[k] > 1 => (rows'[k] = 1 /\ task'[t].pc # "Failed")]_vars

\* C9: a run in which saving a record raised an integrity error is not
\* aborted by it: it does not fail unless a later request fails.
C9_IntegrityErrorSkipsRecord ==
    \A t \in Tasks :
        (task[t].integrity > 0 /\ task[t].raised = <<>>)
        => task[t].pc # "Failed"

\* C10: when a run has ended, every authentication error raised in it has
\* been handed, with the key, to handle_api_exception.
C10_AuthErrorForwarded ==
    \A t \in Tasks :
        task[t].pc \in Terminal
        => \A e \in Range(task[t].raised) :
              e[2] = "AuthenticationError"
              => <<task[t].character_id, "AuthenticationError">>
                     \in Range(task[t].handled)

\* C11: a task is dispatched with the deadline "time of dispatch plus one
\* hour"; a task still queued after its deadline can only be discarded, and a
\* discarded task has made no remote call and written no row and no timer.
C11_DeadlineAndDiscard ==
    [][\A t \in Tasks :
          /\ (task[t].pc = "idle" /\ task'[t].pc # "idle")
             => (task'[t].pc = "queued" /\ task'[t].expires = now + Hour)
          /\ (task[t].pc = "queued" /\ now > task[t].expires)
             => task'[t].pc \in {"queued", "Discarded"}
          /\ task'[t].pc = "Discarded"
             => /\ task'[t].calls = 0
                /\ task'[t].fetched = <<>>
                /\ task'[t].writes = <<>>
                /\ task'[t].handled = <<>>
                /\ task[t].pc # "Discarded"
                   => /\ timer' = timer /\ rows' = rows
                      /\ apikeyValid' = apikeyValid]_vars

C11_Witness ==
    \E t \in Tasks :
        /\ task[t].pc = "Discarded"
        /\ now > task[t].expires
        /\ timer[PairOf(t)] <= now

\* C12: a sweep can always be run, and a sweep run while the walker of some
\* character has failed or is in the middle of its run still dispatches a
\* task for every other character whose timer is due.
C12_SweepNotBlocked ==
    /\ [](\A s \in WalkStreams :
             ntasks + Cardinality({c \in Chars : timer[<<c, s>>] <= now})
                 <= MaxTasks
             => ENABLED Sweep(s))
    /\ [][(ntasks' # ntasks \/ scheduled' # scheduled)
          => \A c \in Chars :
                (/\ timer[<<c, scheduled'.apisheet>>] <= now
                 /\ \E u \in Tasks :
                       /\ task[u].character_id \notin {0, c}
                       /\ task[u].pc \notin {"idle", "queued", "Skipped",
                                              "Aborted", "Done", "Discarded"})
                => \E t \in (ntasks + 1)..ntasks' :
                      /\ task'[t].character_id = c
                      /\ task'[t].apisheet = scheduled'.apisheet
                      /\ task'[t].pc = "queued"]_vars

C12_Witness ==
    \E t \in Tasks, u \in Tasks :
        /\ task[t].pc = "queued"
        /\ task[t].others_stuck
        /\ task[u].pc = "Failed"
        /\ task[u].character_id # task[t].character_id

\* C13: a run whose second request returned a page holding a record that the
\* run itself had inserted from its first page makes no third request; if no
\* save fails in it, it ends Done, after exactly 2 answered requests and with
\* the cachedUntil of the second page as the last thing it wrote, to its timer.
C13_StopsAfterOverlap ==
    \A t \in Tasks :
        task[t].overlap = 2
        => /\ Len(task[t].fetched) = 2
           /\ task[t].calls = 2
           /\ task[t].pc # "next"
           /\ (task[t].pc \in Terminal /\ task[t].integrity = 0)
              => /\ task[t].pc = "Done"
                 /\ Last(task[t].writes) = <<"timer", task[t].fetched[2]>>

C13_Witness ==
    \E t \in Tasks :
        /\ task[t].overlap = 2
        /\ task[t].pc = "Done"
        /\ task[t].n_new >= RowCount
        /\ task[t].fetched[1] # task[t].fetched[2]
        /\ timer[PairOf(t)] = task[t].fetched[2]

\* C14: a run of a reference-data task in which an insert met a row that a
\* concurrent run had just inserted is not ended by it: it goes on with its
\* remaining items.
C14_InsertRaceTolerated ==
    \A r \in Runs : refrun[r].integrity > 0 => refrun[r].pc # "Failed"

\* C15: when a task of a pair runs after an earlier run of the same task has
\* gone through, no request of either run failed, the remote service answered
\* both alike and no other task of the pair ran, then at the end of the second
\* run the rows stored for the pair are those stored when it started.
C15_SecondRunAddsNothing ==
    \A t \in Tasks :
        (/\ task[t].pc \in {"Done", "Failed"}
         /\ task[t].rerun_of # 0
         /\ task[t].raised = <<>>
         /\ task[task[t].rerun_of].raised = <<>>
         /\ task[t].response = task[task[t].rerun_of].response
         /\ \A v \in Tasks \ {t, task[t].rerun_of} :
               PairOf(v) = PairOf(t)
               => task[v].pc \in {"queued", "Discarded", "Skipped", "Aborted"})
        => StoreOf(task[t].character_id, task[t].apisheet) = task[t].before

C15_Witness ==
    \E t \in Tasks :
        /\ task[t].pc = "Done"
        /\ task[t].rerun_of # 0
        /\ task[task[t].rerun_of].pc = "Done"
        /\ task[t].apisheet = "Research"
        /\ task[t].response # <<>>
        /\ task[t].response = task[task[t].rerun_of].response
        /\ Inserted(t) # {}
        /\ StoreOf(task[t].character_id, "Research") = task[t].before

C17_OtherAccountsUntouched ==
    [][\A t \in Tasks :
          (task[t].pc # "idle" /\ task'[t] # task[t])
          => LET c == task[t].character_id
             IN  /\ \A k \in Keys : k[1] # c => rows'[k] = rows[k]
                 /\ \A k \in Chars \X Agents :
                       k[1] # c => research'[k] = research[k]
                 /\ \A k \in Chars \X SkillIds :
                       k[1] # c => charskill'[k] = charskill[k]
                 /\ \A p \in Chars \X Streams : p[1] # c => timer'[p] = timer[p]
                 /\ \A b \in Chars \ {c} : apikeyValid'[b] = apikeyValid[b]
                 /\ \A u \in Tasks \ {t} : task'[u] = task[u]]_vars

C17_Witness ==
    \E t \in Tasks, u \in Tasks :
        /\ task[t].character_id # task[u].character_id
        /\ task[t].apisheet = "Research"
        /\ task[u].apisheet = "Research"
        /\ task[t].pc = "Done"
        /\ <<"delete", task[t].character_id>> \in Range(task[t].writes)
        /\ task[u].pc = "Done"
        /\ Inserted(u) # {}
        /\ \A a \in Inserted(u) : research[<<task[u].character_id, a>>] = 1

\* C18: once a walker has met a stored record in a page (walking is False),
\* it inserts no further record of that page.
C18_StopsAtKnownRecord ==
    [][\A t \in Tasks :
          (task[t].pc = "rec" /\ ~task[t].walking /\ task'[t] # task[t])
          => rows' = rows]_vars

\* C19: the first answered request of a run carries no fromID; every later
\* one carries the id of the oldest row that is stored for the character and
\* the stream when the request is made.
C19_CursorIsOldestStored ==
    [][\A t \in Tasks :
          Len(task'[t].cursors) = Len(task[t].cursors) + 1
          => Last(task'[t].cursors) =
                 IF task[t].cursors = <<>> THEN 0
                 ELSE SetMin({r \in Refs :
                         rows[<<task[t].character_id, task[t].apisheet, r>>] > 0})]_vars

\* the cursor of the second request is not the last record of the first page
C19_Witness ==
    \E t \in Tasks :
        /\ feed.dup = 0
        /\ feed.n > RowCount
        /\ Len(task[t].cursors) >= 2
        /\ task[t].cursors[1] = 0
        /\ task[t].cursors[2] < feed.n - RowCount + 1
        /\ task[t].pc = "Done"

\* C20: at the end of a completed walk in which no save failed, and that
\* started on a feed of new records followed by the stored history, every
\* record of the feed is stored.
C20_AllNewRecordsStored ==
    \A t \in Tasks :
        (task[t].pc = "Done" /\ task[t].n_new >= 0 /\ task[t].integrity = 0)
        => \A r \in 1..feed.n :
              rows[Key(task[t].character_id, task[t].apisheet, r)] >= 1

\* C21: every walk that has started comes to an end.
C21_WalkTerminates ==
    \A t \in Tasks : (task[t].pc = "auth") ~> (task[t].pc \in Terminal)

\* The bound on the requests of a task cuts no walk that moves on: a task that
\* has used its requests up and wants another page has just made the same
\* request twice, with nothing stored in between.
OnlyRepeatsAreCut ==
    \A t \in Tasks :
        (task[t].pc = "next" /\ task[t].calls = MaxCalls)
        => /\ Len(task[t].cursors) >= 3
           /\ task[t].cursors[Len(task[t].cursors)]
                  = task[t].cursors[Len(task[t].cursors) - 1]
           /\ StoredRefs(task[t].character_id, task[t].apisheet) # {}
           /\ Oldest(task[t].character_id, task[t].apisheet)
                  = Last(task[t].cursors)

\* C22: the timer table changes only in the step in which a walker ends Done,
\* and then only in the row of the pair of that walker; no row is ever removed;
\* a run writes its timer at most once, as the last thing it writes.
C22_TimerWrittenByOwnWalker ==
    /\ [](\A t \in Tasks :
             /\ Cardinality({i \in 1..Len(task[t].writes) :
                                task[t].writes[i][1] = "timer"}) <= 1
             /\ WroteTimer(t)
                => (task[t].pc = "Done" /\ Last(task[t].writes)[1] = "timer"))
    /\ [][/\ DOMAIN timer' = DOMAIN timer
          /\ timer' # timer
             => \E t \in Tasks :
                   /\ task[t].pc = "finalize" /\ task'[t].pc = "Done"
                   /\ \A p \in DOMAIN timer :
                         p # PairOf(t) => timer'[p] = timer[p]
                   /\ \A u \in Tasks \ {t} : task'[u] = task[u]]_vars

C22_Witness ==
    \E t \in Tasks, u \in Tasks :
        /\ task[t].character_id = task[u].character_id
        /\ task[t].apisheet = "MarketOrders"
        /\ task[u].apisheet = "WalletJournal"
        /\ task[t].pc = "Done"
        /\ Len(task[t].writes) >= 3
        /\ timer[PairOf(t)] > now
        /\ task[u].pc = "Failed"
        /\ timer[PairOf(u)] <= now

\* C23: a run that ended on an error of the remote service has not written its
\* timer; unless another run of the pair has gone through, the pair is still
\* due, and a sweep of the stream dispatches a task for it again.
C23_AbortedPairRetried ==
    /\ [](\A u \in Tasks :
             (task[u].pc \in Terminal /\ task[u].raised # <<>>)
             => /\ ~WroteTimer(u)
                /\ (\A v \in Tasks : PairOf(v) = PairOf(u) => ~WroteTimer(v))
                   => timer[PairOf(u)] <= now)
    /\ [][\A u \in Tasks :
             (/\ task[u].pc \in Terminal /\ task[u].raised # <<>>
              /\ \A v \in Tasks : PairOf(v) = PairOf(u) => ~WroteTimer(v)
              /\ ntasks' # ntasks \/ scheduled' # scheduled
              /\ scheduled'.apisheet = task[u].apisheet)
             => \E t \in (ntasks + 1)..ntasks' :
                   /\ task'[t].character_id = task[u].character_id
                   /\ task'[t].apisheet = task[u].apisheet
                   /\ task'[t].pc = "queued"]_vars

C23_Witness ==
    \E t \in Tasks, u \in Tasks :
        /\ PairOf(t) = PairOf(u)
        /\ task[u].pc = "Aborted"
        /\ task[u].raised[1][2] = "TransientError"
        /\ task[t].after_abort
        /\ task[t].pc = "queued"
        /\ task[t].expires = task[u].expires

\* a task that has been started by a worker and has not ended
Executing(t) == task[t].pc \notin ({"idle", "queued"} \cup Terminal)

\* C24: no two tasks of the same account and stream are executing at the same
\* time, and a task of a pair is dispatched only when every task dispatched
\* for the pair before has written the timer.
C24_NoOverlap ==
    /\ [](\A t \in Tasks, u \in Tasks :
             (t # u /\ PairOf(t) = PairOf(u)) => ~(Executing(t) /\ Executing(u)))
    /\ [][\A t \in (ntasks + 1)..ntasks' : \A u \in 1..ntasks :
             PairOf(u) = <<task'[t].character_id, task'[t].apisheet>>
             => WroteTimer(u)]_vars

\* C25: no step lowers the timer of an account and stream.
C25_TimerNeverDecreases ==
    [][\A p \in DOMAIN timer : timer'[p] >= timer[p]]_vars

\* C26: a market orders run that has received its orders ends at Done with
\* the timer written, and every order of the response that is at a known
\* station and of a known type has its Orders and MarketOrder rows, also when
\* another order of the response is not.
C26_OrderFailureSkipsOnlyThatOrder ==
    \A t \in Tasks :
        (/\ task[t].apisheet = "MarketOrders"
         /\ task[t].pc \in Terminal
         /\ task[t].response # <<>>)
        => /\ task[t].pc = "Done"
           /\ WroteTimer(t)
           /\ \A i \in DOMAIN task[t].response :
                 LET o == task[t].response[i]
                 IN  (o.station_ok /\ o.type_ok)
                     => (o.id \in orders /\ marketorder[o.id] # 0)

\* C27: the store never holds more than one CharSkill row of a character and
\* skill, and no step adds a row for a character and skill that has one.
C27_OneRowPerSkill ==
    /\ [](\A ck \in DOMAIN charskill : charskill[ck] <= 1)
    /\ [][\A ck \in DOMAIN charskill :
             charskill'[ck] > charskill[ck] => charskill[ck] = 0]_vars

\* C28: once every dispatched task has ended, the Research rows of a
\* character whose research walker has gone through are the jobs of the sheet
\* one of its runs received, each stored once.
C28_JobsAreOneSheet ==
    Finished =>
        \A c \in Chars :
            LET runs == {t \in Tasks : /\ PairOf(t) = <<c, "Research">>
                                       /\ task[t].pc = "Done"}
            IN  runs # {} =>
                    \E t \in runs : \A a \in Agents :
                        research[<<c, a>>] =
                            IF a \in Range(task[t].response) THEN 1 ELSE 0

\* C29: when the wallet journal of a character is due and its key is valid,
\* and the remote service answers every request, a walker of the pair reaches
\* Done and writes the timer in the end.
C29_DuePairEventuallyDone ==
    \A c \in Chars :
        (timer[<<c, "WalletJournal">>] <= now /\ apikeyValid[c])
        ~> (\E t \in Tasks : /\ PairOf(t) = <<c, "WalletJournal">>
                              /\ task[t].pc = "Done"
                              /\ WroteTimer(t))

\* the ids of the entries of a history
Ids(h) == {h[i].id : i \in 1..Len(h)}

\* C30: from an empty history on, no two entries of the session history have
\* the same blueprint id and it has at most MANUFACTURING_MAX_BLUEPRINT_HISTORY
\* entries; the history changes only by a blueprint that was not in it being
\* put first, so the blueprint added last is the first entry; and a call for
\* a blueprint that is in the history leaves the history as it is.
C30_HistoryWellFormed ==
    /\ [](/\ \A i \in 1..Len(history), j \in 1..Len(history) :
                 history[i].id = history[j].id => i = j
           /\ Len(history) <= MANUFACTURING_MAX_BLUEPRINT_HISTORY)
    /\ [][/\ history' # history
              => /\ history'[1] = Entry(called'.blueprint)
                 /\ called'.blueprint \notin Ids(history)
                 /\ \A i \in 2..Len(history') : history'[i] = history[i - 1]
          /\ (called' # called /\ called'.blueprint \in Ids(history))
              => history' = history]_vars

\* a call for a blueprint already in a full history, after an entry had been
\* deleted to make room
C30_Witness ==
    /\ Len(history) = MANUFACTURING_MAX_BLUEPRINT_HISTORY
    /\ called.blueprint \in Ids(called.before)
    /\ called.blueprint # history[1].id
    /\ called.deleted # 0
    /\ called.deleted \notin Ids(history)
    /\ history = called.before

\* the sum of the quantities of the entries of a list that have the id
RECURSIVE QuantityOf(_, _)
QuantityOf(list, id) ==
    IF list = <<>> THEN 0
    ELSE (IF Last(list).id = id THEN Last(list).quantity ELSE 0)
         + QuantityOf(SubSeq(list, 1, Len(list) - 1), id)

\* C31: the list merge_bill_of_materials returns has one entry for each
\* material id that occurs in materials1 or materials2 and none for any other
\* id, and the quantity of the entry is the sum of the quantities of the
\* entries of both lists with that id.
C31_MergedBill ==
    bill.pc = "returned" =>
        \A id \in Materials :
            LET given == bill.materials1 \o bill.materials2
                got == {k \in 1..Len(bill.materials) : bill.materials[k].id = id}
            IN  IF \E i \in 1..Len(given) : given[i].id = id
                THEN /\ Cardinality(got) = 1
                     /\ \A k \in got :
                           bill.materials[k].quantity = QuantityOf(given, id)
                ELSE got = {}

\* a material in both lists, twice in one of them, merged together with a
\* material that occurs once
C31_Witness ==
    /\ bill.pc = "returned"
    /\ \E id \in Materials :
          /\ \E i \in 1..Len(bill.materials1), j \in 1..Len(bill.materials1) :
                i # j /\ bill.materials1[i].id = id /\ bill.materials1[j].id = id
          /\ \E i \in 1..Len(bill.materials2) : bill.materials2[i].id = id
    /\ Len(bill.materials) = 2

====
